---- MODULE Spec2Model ----
(***************************************************************************)
(* Model of unifi/cams/hikvision.py (HikvisionCam).                        *)
(*                                                                         *)
(* Two execution contexts are modelled: the worker thread running          *)
(* _worker (the alert-stream poller) and the asyncio event loop running    *)
(* the _trigger_motion_start / _trigger_motion_stop coroutines and the     *)
(* call_later timers.  A coroutine step is atomic between two awaits; the  *)
(* awaited host callbacks (trigger_motion_start / trigger_motion_stop of   *)
(* the base class, not part of this file) may return at once, suspend the  *)
(* coroutine, or raise.                                                    *)
(*                                                                         *)
(* Time passes in steps of one second.  A timer holds the seconds left     *)
(* until it is due, and "since" is the time passed since the last raw      *)
(* signal, counted up to motion_timeout + 1.  The event loop is prompt: no *)
(* second passes while a callback is ready to run or a timer is due.  How  *)
(* long a suspended host callback takes is unconstrained.                  *)
(*                                                                         *)
(* Numbers exchanged with the device as decimal strings (str(zoom),        *)
(* int(r["azimuth"])) are modelled as the integers they denote.            *)
(***************************************************************************)
EXTENDS Integers, Sequences, FiniteSets, TLC

VARIABLES
    since,           \* seconds since the last raw signal, up to SinceCap
    motion_counter,  \* self.motion_counter
    loop,            \* self.loop
    rpc,             \* position inside run()
    wpc,             \* position of the worker thread inside _worker
    sig,             \* per raw signal: its handler coroutine and stop-timer
    calls,           \* host callbacks invoked so far, with their time
    exc,             \* exceptions raised by host callbacks inside handler tasks
    ptz_supported,   \* self.ptz_supported
    options,         \* argument of change_video_settings
    pose,            \* the device's PTZStatus.AbsoluteHigh
    sent,            \* AbsoluteHigh of the last PTZData put to the device
    telemetry,       \* last value returned by get_video_settings
    probe,           \* how the capabilities request of __init__ ended
    ptz_requests,    \* PTZCtrl endpoints requested since __init__
    ptz_call,        \* the last PTZ method the host called, or None
    ptz_exc,         \* exception raised by the last PTZ call, or None
    img_file,        \* the file snapshot_dir/screen.jpg
    img_before,      \* that file when the last get_snapshot was entered
    snap_result,     \* how the last get_snapshot ended
    snap_gets        \* picture requests issued by the last get_snapshot

vars == <<since, motion_counter, loop, rpc, wpc, sig, calls, exc,
          ptz_supported, options, pose, sent, telemetry,
          probe, ptz_requests, ptz_call, ptz_exc,
          img_file, img_before, snap_result, snap_gets>>

coreVars == <<since, motion_counter, loop, rpc, wpc, sig, calls, exc>>

ptzVars == <<ptz_supported, options, pose, sent, telemetry,
             probe, ptz_requests, ptz_call, ptz_exc>>

snapVars == <<img_file, img_before, snap_result, snap_gets>>

hostVars == <<ptzVars, snapVars>>

----------------------------------------------------------------------------
(* Bounds of the model. *)

MaxSignals == 2

(* Program constants. *)

motion_timeout == 5

None == "None"

Signals == 1..MaxSignals

----------------------------------------------------------------------------
(* Alert stream records. *)

\* A record r of the alert stream as _worker reads it: the dict found under
\* r['EventNotificationAlert'], or a record lacking that key.
WellFormedRecords ==
    { [eventType |-> "VMD", eventDescription |-> "Motion alarm"],
      [eventType |-> "VMD", eventDescription |-> "Motion alarm stopped"],
      [eventType |-> "linedetection", eventDescription |-> "Motion alarm"],
      [eventType |-> "videoloss", eventDescription |-> "videoloss alarm"] }

MalformedRecords ==
    { [noAlert |-> "x"], [eventType |-> "VMD"] }

Records == WellFormedRecords \cup MalformedRecords

\* Evaluation of lines 128-129 raises KeyError when a key that is looked up
\* is absent; "and" short-circuits, so eventDescription is looked up only
\* when eventType is 'VMD'.
RaisesKeyError(r) ==
    \/ "noAlert" \in DOMAIN r
    \/ "eventType" \notin DOMAIN r
    \/ r.eventType = "VMD" /\ "eventDescription" \notin DOMAIN r

IsMotionOnTypeOnly(r) == r.eventType = "VMD"

\* The condition of line 129, for a record that does not raise.
IsMotion(r) == r.eventType = "VMD" /\ r.eventDescription = "Motion alarm"

\* Exceptions are classed by whether "except Exception" would catch them.
ExceptionClasses == {"Exception", "BaseException"}

ExceptExceptionOnly(e) == IF e = "Exception" THEN "except" ELSE "exited"

\* The bare "except:" of line 131 catches every class: the worker goes on
\* at line 132.
ExceptClause(e) == "except"

----------------------------------------------------------------------------
(* The signals.  sig[i] follows raw signal i from its submission by the    *)
(* worker to the end of its stop handler.                                  *)
(*   idle        not yet submitted                                         *)
(*   submitted   _trigger_motion_start() queued on the loop                *)
(*   await_start suspended in "await self.trigger_motion_start()"          *)
(*   timer       counter incremented, call_later timer pending             *)
(*   stop_ready  timer fired, _trigger_motion_stop() task queued           *)
(*   await_stop  suspended in "await self.trigger_motion_stop()"           *)
(*   done        stop handler finished                                     *)
(*   failed      a host callback raised out of the handler                 *)

\* "since" stops counting here: a value above motion_timeout.
SinceCap == motion_timeout + 1

\* How the time since the signal before compares to motion_timeout.
Gap == IF since < motion_timeout THEN "less"
       ELSE IF since = motion_timeout THEN "equal" ELSE "more"

\* gap: the gap to the signal before when the signal was submitted; left:
\* the seconds left on its stop-timer.
NoSignal == [pc |-> "idle", gap |-> "more", left |-> 0]

NumSubmitted == Cardinality({i \in Signals : sig[i].pc # "idle"})

\* Outcomes of awaiting a host callback when it is first called.
CallOutcomes == {"returns", "suspends", "raises"}

\* Outcomes of a suspended host callback when it is resumed.
ResumeOutcomes == {"returns", "raises"}

\* The host callback is called; the log keeps how long after the last
\* signal.
Invoke(kind) == Append(calls, [kind |-> kind, after |-> since])

IncrementWrongSign(c) == c - 1

\* line 111
Increment(c) == c + 1

\* lines 115-117: decrement, then clamp to 0
Decrement(c) == IF c - 1 <= 0 THEN 0 ELSE c - 1

\* line 112: loop.call_later(self.motion_timeout, ...)
call_later(i) == [sig[i] EXCEPT !.pc = "timer", !.left = motion_timeout]

\* lines 111-112, the part of _trigger_motion_start after the await
StartTail(i) ==
    /\ motion_counter' = Increment(motion_counter)
    /\ sig' = [sig EXCEPT ![i] = call_later(i)]

----------------------------------------------------------------------------
(* run() *)

\* line 135
RunSetLoop ==
    /\ rpc = "init"
    /\ loop' = "loop"
    /\ rpc' = "loop_set"
    /\ UNCHANGED <<since, motion_counter, wpc, sig, calls, exc>>
    /\ UNCHANGED hostVars

\* line 136
RunStartThread ==
    /\ rpc = "loop_set"
    /\ wpc' = "connecting"
    /\ rpc' = "done"
    /\ UNCHANGED <<since, motion_counter, loop, sig, calls, exc>>
    /\ UNCHANGED hostVars

RunNext == RunSetLoop \/ RunStartThread

----------------------------------------------------------------------------
(* _worker, on the worker thread *)

\* The handler body executed inline on the calling thread.
run_inline(i) ==
    /\ motion_counter' = Increment(motion_counter)
    /\ sig' = [sig EXCEPT ![i] = [pc |-> "timer", gap |-> Gap,
                                  left |-> motion_timeout]]
    /\ calls' = IF motion_counter = 0 THEN Invoke("start") ELSE calls

\* line 130: asyncio.run_coroutine_threadsafe(self._trigger_motion_start(),
\* self.loop) queues the coroutine on the loop and returns.
run_coroutine_threadsafe(i) ==
    /\ sig' = [sig EXCEPT ![i] = [pc |-> "submitted", gap |-> Gap, left |-> 0]]
    /\ UNCHANGED <<motion_counter, calls>>

\* lines 124-126: the alertStream request.  It returns a stream, returns a
\* falsy response, or raises an exception of some class.
Connect(outcome) ==
    /\ wpc = "connecting"
    /\ wpc' = CASE outcome = "stream" -> "streaming"
                [] outcome = "empty"  -> "connecting"
                [] OTHER              -> ExceptClause(outcome)
    /\ UNCHANGED <<since, motion_counter, loop, rpc, sig, calls, exc>>
    /\ UNCHANGED hostVars

\* lines 127-130 for one record r of the stream
ReadRecord(r) ==
    /\ wpc = "streaming"
    /\ IF RaisesKeyError(r)
         THEN /\ wpc' = ExceptClause("Exception")
              /\ UNCHANGED <<since, motion_counter, sig, calls>>
         ELSE /\ wpc' = "streaming"
              /\ IF IsMotion(r)
                   THEN /\ NumSubmitted < MaxSignals
                        /\ loop # None
                        /\ run_coroutine_threadsafe(NumSubmitted + 1)
                        /\ since' = 0
                   ELSE UNCHANGED <<since, motion_counter, sig, calls>>
    /\ UNCHANGED <<loop, rpc, exc>>
    /\ UNCHANGED hostVars

\* line 127: the iteration ends; "while True" goes back to line 124
StreamEnds ==
    /\ wpc = "streaming"
    /\ wpc' = "connecting"
    /\ UNCHANGED <<since, motion_counter, loop, rpc, sig, calls, exc>>
    /\ UNCHANGED hostVars

\* line 127: reading the next record raises
StreamRaises(e) ==
    /\ wpc = "streaming"
    /\ wpc' = ExceptClause(e)
    /\ UNCHANGED <<since, motion_counter, loop, rpc, sig, calls, exc>>
    /\ UNCHANGED hostVars

\* line 132: the traceback is printed; "while True" goes back to line 124
PrintExcResets ==
    /\ wpc = "except"
    /\ wpc' = "connecting"
    /\ motion_counter' = 0
    /\ UNCHANGED <<since, loop, rpc, sig, calls, exc>>
    /\ UNCHANGED hostVars

PrintExc ==
    /\ wpc = "except"
    /\ wpc' = "connecting"
    /\ UNCHANGED <<since, motion_counter, loop, rpc, sig, calls, exc>>
    /\ UNCHANGED hostVars

WorkerNext ==
    \/ \E outcome \in {"stream", "empty"} \cup ExceptionClasses : Connect(outcome)
    \/ \E r \in Records : ReadRecord(r)
    \/ StreamEnds
    \/ \E e \in ExceptionClasses : StreamRaises(e)
    \/ PrintExc

----------------------------------------------------------------------------
(* The handler coroutines and timers, on the event loop *)

\* lines 108-112 up to the first suspension: the first step of the task
\* created for _trigger_motion_start().  The loop starts queued handlers
\* in the order of their submission.
HandleSignal(i, outcome) ==
    /\ sig[i].pc = "submitted"
    /\ \A j \in Signals : j < i => sig[j].pc # "submitted"
    /\ IF motion_counter = 0
         THEN /\ calls' = Invoke("start")
              /\ CASE outcome = "returns" ->
                        StartTail(i) /\ UNCHANGED exc
                   [] outcome = "suspends" ->
                        /\ sig' = [sig EXCEPT ![i].pc = "await_start"]
                        /\ UNCHANGED <<motion_counter, exc>>
                   [] outcome = "raises" ->
                        /\ sig' = [sig EXCEPT ![i].pc = "failed"]
                        /\ exc' = exc \cup {<<i, "start">>}
                        /\ UNCHANGED motion_counter
         ELSE /\ outcome = "returns"
              /\ StartTail(i)
              /\ UNCHANGED <<calls, exc>>
    /\ UNCHANGED <<since, loop, rpc, wpc>>
    /\ UNCHANGED hostVars

\* line 109 completes: trigger_motion_start() returns or raises into the
\* suspended coroutine
ResumeStart(i, outcome) ==
    /\ sig[i].pc = "await_start"
    /\ CASE outcome = "returns" ->
              StartTail(i) /\ UNCHANGED exc
         [] outcome = "raises" ->
              /\ sig' = [sig EXCEPT ![i].pc = "failed"]
              /\ exc' = exc \cup {<<i, "start">>}
              /\ UNCHANGED motion_counter
    /\ UNCHANGED <<since, loop, rpc, wpc, calls>>
    /\ UNCHANGED hostVars

\* The timer of line 112 is due: asyncio.ensure_future queues the
\* _trigger_motion_stop() task.
TimerFires(i) ==
    /\ sig[i].pc = "timer"
    /\ sig[i].left = 0
    /\ sig' = [sig EXCEPT ![i].pc = "stop_ready"]
    /\ UNCHANGED <<since, motion_counter, loop, rpc, wpc, calls, exc>>
    /\ UNCHANGED hostVars

\* lines 115-119 up to the first suspension
HandleStop(i, outcome) ==
    /\ sig[i].pc = "stop_ready"
    /\ motion_counter' = Decrement(motion_counter)
    /\ IF motion_counter - 1 <= 0
         THEN /\ calls' = Invoke("stop")
              /\ CASE outcome = "returns" ->
                        /\ sig' = [sig EXCEPT ![i].pc = "done"]
                        /\ UNCHANGED exc
                   [] outcome = "suspends" ->
                        /\ sig' = [sig EXCEPT ![i].pc = "await_stop"]
                        /\ UNCHANGED exc
                   [] outcome = "raises" ->
                        /\ sig' = [sig EXCEPT ![i].pc = "failed"]
                        /\ exc' = exc \cup {<<i, "stop">>}
         ELSE /\ outcome = "returns"
              /\ sig' = [sig EXCEPT ![i].pc = "done"]
              /\ UNCHANGED <<calls, exc>>
    /\ UNCHANGED <<since, loop, rpc, wpc>>
    /\ UNCHANGED hostVars

\* line 119 completes
ResumeStop(i, outcome) ==
    /\ sig[i].pc = "await_stop"
    /\ CASE outcome = "returns" ->
              /\ sig' = [sig EXCEPT ![i].pc = "done"]
              /\ UNCHANGED exc
         [] outcome = "raises" ->
              /\ sig' = [sig EXCEPT ![i].pc = "failed"]
              /\ exc' = exc \cup {<<i, "stop">>}
    /\ UNCHANGED <<since, motion_counter, loop, rpc, wpc, calls>>
    /\ UNCHANGED hostVars

LoopNext ==
    \/ \E i \in Signals, outcome \in CallOutcomes : HandleSignal(i, outcome)
    \/ \E i \in Signals, outcome \in ResumeOutcomes : ResumeStart(i, outcome)
    \/ \E i \in Signals : TimerFires(i)
    \/ \E i \in Signals, outcome \in CallOutcomes : HandleStop(i, outcome)
    \/ \E i \in Signals, outcome \in ResumeOutcomes : ResumeStop(i, outcome)

\* A callback is queued on the loop or a timer is due.
LoopBusy ==
    \E i \in Signals :
        \/ sig[i].pc \in {"submitted", "stop_ready"}
        \/ sig[i].pc = "timer" /\ sig[i].left = 0

\* One second passes: every pending timer has one second less to go.
Tick ==
    /\ ~LoopBusy
    /\ since' = IF since < SinceCap THEN since + 1 ELSE since
    /\ sig' = [i \in Signals |->
                 IF sig[i].pc = "timer"
                   THEN [sig[i] EXCEPT !.left = sig[i].left - 1]
                   ELSE sig[i]]
    /\ UNCHANGED <<motion_counter, loop, rpc, wpc, calls, exc>>
    /\ UNCHANGED hostVars

----------------------------------------------------------------------------
(* Construction and the specification of the poller and the debouncer *)

check_ptz_support_always(p) == TRUE

\* lines 53-60: the capabilities probe returns, or raises HTTPError
check_ptz_support(p) == IF p = "HTTPError" THEN FALSE ELSE TRUE

DefaultOptions == [brightness |-> 0, contrast |-> 0, hue |-> 0]

HomePose == [azimuth |-> 0, elevation |-> 0, absoluteZoom |-> 0]

NothingSent == [put |-> FALSE, absoluteZoom |-> 0, azimuth |-> 0, elevation |-> 0]

NothingReturned == [dict |-> "not_called", brightness |-> 0, contrast |-> 0, hue |-> 0]

\* lines 21-31: the state after __init__
InitCore ==
    /\ since = SinceCap
    /\ motion_counter = 0
    /\ loop = None
    /\ rpc = "init"
    /\ wpc = "not_started"
    /\ sig = [i \in Signals |-> NoSignal]
    /\ calls = << >>
    /\ exc = {}

\* screen.jpg does not exist in the fresh directory of line 23.
NoFile == [exists |-> FALSE, data |-> << >>]

InitSnapshot ==
    /\ img_file = NoFile
    /\ img_before = NoFile
    /\ snap_result = "not_called"
    /\ snap_gets = 0

Init ==
    /\ InitCore
    /\ probe = "HTTPError"
    /\ ptz_supported = check_ptz_support(probe)
    /\ options = DefaultOptions
    /\ pose = HomePose
    /\ sent = NothingSent
    /\ telemetry = NothingReturned
    /\ ptz_requests = {}
    /\ ptz_call = None
    /\ ptz_exc = None
    /\ InitSnapshot

Next == RunNext \/ WorkerNext \/ LoopNext \/ Tick

Spec == Init /\ [][Next]_vars

\* The event loop of line 134 runs every callback that is ready, a host
\* callback that is awaited completes, and time passes.
SpecFair == Spec /\ WF_vars(LoopNext) /\ WF_vars(Tick)

----------------------------------------------------------------------------
(* The PTZ unit mapping: get_video_settings and change_video_settings *)

\* Inputs below and above the nominal ranges are drawn up to this margin.
InputMargin == 1

\* int(n / d) for integers n and d > 0: true division, then truncation
\* toward zero.
IntOfQuotient(n, d) == IF n >= 0 THEN n \div d ELSE 0 - ((0 - n) \div d)

RoundHalfUp(n, d) == (2 * n + d) \div (2 * d)

to_device_rounding(o) ==
    [put |-> TRUE,
     absoluteZoom |-> RoundHalfUp(40 * o.hue, 100),
     azimuth |-> RoundHalfUp(3600 * o.contrast, 100),
     elevation |-> RoundHalfUp(900 * o.brightness, 100)]

\* lines 79-93: the AbsoluteHigh element built from the options
to_device(o) ==
    [put |-> TRUE,
     absoluteZoom |-> IntOfQuotient(40 * o.hue, 100),
     azimuth |-> IntOfQuotient(3600 * o.contrast, 100),
     elevation |-> IntOfQuotient(900 * o.brightness, 100)]

to_telemetry_from_elevation(r) ==
    [dict |-> "values",
     brightness |-> IntOfQuotient(100 * r.elevation, 900),
     contrast |-> IntOfQuotient(100 * r.azimuth, 3600),
     hue |-> IntOfQuotient(100 * r.absoluteZoom, 40)]

to_telemetry_unscaled_zoom(r) ==
    [dict |-> "values",
     brightness |-> IntOfQuotient(100 * r.azimuth, 3600),
     contrast |-> IntOfQuotient(100 * r.azimuth, 3600),
     hue |-> r.absoluteZoom]

\* lines 67-74: the dict returned for the status r
to_telemetry(r) ==
    [dict |-> "values",
     brightness |-> IntOfQuotient(100 * r.azimuth, 3600),
     contrast |-> IntOfQuotient(100 * r.azimuth, 3600),
     hue |-> IntOfQuotient(100 * r.absoluteZoom, 40)]

\* line 75: return {}
EmptyDict == [dict |-> "empty", brightness |-> 0, contrast |-> 0, hue |-> 0]

\* The device carries out an absolute move inside its ranges and refuses
\* any other.
DeviceAccepts(req) ==
    /\ req.azimuth \in 0..3600
    /\ req.elevation \in 0..900
    /\ req.absoluteZoom \in 0..40

\* Replies of the device to a PTZCtrl request: an answer, or a failure that
\* the client raises as an exception.
DeviceReplies == {"ok", "error"}

\* lines 77-97.  The put raises when the device refuses or the request
\* fails.
change_video_settings ==
    \E reply \in DeviceReplies :
        /\ ptz_call' = "change_video_settings"
        /\ IF ptz_supported
             THEN /\ sent' = to_device(options)
                  /\ ptz_requests' = ptz_requests \cup {"absolute"}
                  /\ IF reply = "ok" /\ DeviceAccepts(sent')
                       THEN /\ pose' = [azimuth |-> sent'.azimuth,
                                        elevation |-> sent'.elevation,
                                        absoluteZoom |-> sent'.absoluteZoom]
                            /\ ptz_exc' = None
                       ELSE /\ pose' = pose
                            /\ ptz_exc' = "HTTPError"
             ELSE /\ ptz_exc' = None
                  /\ UNCHANGED <<sent, pose, ptz_requests>>
        /\ UNCHANGED <<ptz_supported, options, telemetry, probe>>
        /\ UNCHANGED <<coreVars, snapVars>>

\* lines 62-75.  The status request raises when it fails.
get_video_settings ==
    \E reply \in DeviceReplies :
        /\ ptz_call' = "get_video_settings"
        /\ IF ptz_supported
             THEN /\ ptz_requests' = ptz_requests \cup {"status"}
                  /\ IF reply = "ok"
                       THEN telemetry' = to_telemetry(pose) /\ ptz_exc' = None
                       ELSE telemetry' = telemetry /\ ptz_exc' = "HTTPError"
             ELSE /\ telemetry' = EmptyDict
                  /\ ptz_exc' = None
                  /\ UNCHANGED ptz_requests
        /\ UNCHANGED <<ptz_supported, options, pose, sent, probe>>
        /\ UNCHANGED <<coreVars, snapVars>>

PctSamples == {0, 50, 100}

PctInputs == (0 - InputMargin)..(100 + InputMargin)

\* Telemetry triples passed by the host: each component sweeps its range
\* while the other two take sample values.
OptionInputs ==
    [brightness : PctInputs, contrast : PctSamples, hue : PctSamples]
    \cup [brightness : PctSamples, contrast : PctInputs, hue : PctSamples]
    \cup [brightness : PctSamples, contrast : PctSamples, hue : PctInputs]
    \cup {[brightness |-> 50, contrast |-> 25, hue |-> 100]}

\* Poses reported by the device, swept the same way.
PoseInputs ==
    [azimuth : (0 - InputMargin)..(3600 + InputMargin), elevation : {0, 450, 900},
     absoluteZoom : {0, 20, 40}]
    \cup [azimuth : {0, 1800, 3600}, elevation : (0 - InputMargin)..(900 + InputMargin),
          absoluteZoom : {0, 20, 40}]
    \cup [azimuth : {0, 1800, 3600}, elevation : {0, 450, 900},
          absoluteZoom : (0 - InputMargin)..(40 + InputMargin)]

ProbeOutcomes == {"ok", "HTTPError"}

InitPTZ ==
    /\ InitCore
    /\ probe \in ProbeOutcomes
    /\ ptz_supported = check_ptz_support(probe)
    /\ \/ options \in OptionInputs /\ pose = HomePose
       \/ options = DefaultOptions /\ pose \in PoseInputs
    /\ sent = NothingSent
    /\ telemetry = NothingReturned
    /\ ptz_requests = {}
    /\ ptz_call = None
    /\ ptz_exc = None
    /\ InitSnapshot

NextPTZ == change_video_settings \/ get_video_settings

SpecPTZ == InitPTZ /\ [][NextPTZ]_vars

(***************************************************************************)
(* Snapshots.  get_snapshot requests the picture of channel 102 and        *)
(* streams the body into snapshot_dir/screen.jpg.  The file is a flag and  *)
(* the sequence of chunks it holds; an image is the sequence of its        *)
(* chunks <<img, 1>> .. <<img, MaxChunks>>.                                *)
(***************************************************************************)
MaxImages == 3

MaxChunks == 3

Images == 1..MaxImages

Body(img) == [j \in 1..MaxChunks |-> <<img, j>>]

\* A keep-alive chunk of the response: iter_content yields it empty.
EmptyChunk == <<0, 0>>

\* What iter_content yields for the picture img.
iter_content(img, keepalive) ==
    IF keepalive THEN <<EmptyChunk>> \o Body(img) ELSE Body(img)

\* lines 48-50: the chunks written, in order, skipping the empty ones
Written(chunks) == SelectSeq(chunks, LAMBDA c : c # EmptyChunk)

\* Exceptions of the requests library raised by the picture request.
RequestExceptions == {"ConnectionError", "HTTPError"}

\* lines 41-51.  The request raises before the file is opened; open("wb")
\* creates or truncates the file; a read of the body that raises leaves
\* the chunks written so far.  No exception is caught or converted.
get_snapshot ==
    \E img \in Images, keepalive \in BOOLEAN :
        LET chunks == iter_content(img, keepalive) IN
        /\ img_before' = img_file
        /\ snap_gets' = 1
        /\ \/ \E e \in RequestExceptions :
                 /\ snap_result' = e
                 /\ img_file' = img_file
           \/ \E k \in 0..(Len(chunks) - 1) :
                 /\ snap_result' = "ChunkedEncodingError"
                 /\ img_file' = [exists |-> TRUE,
                                 data |-> Written(SubSeq(chunks, 1, k))]
           \/ /\ snap_result' = "path"
              /\ img_file' = [exists |-> TRUE, data |-> Written(chunks)]
        /\ UNCHANGED <<coreVars, ptzVars>>

NextSnapshot == get_snapshot

SpecSnapshot == Init /\ [][NextSnapshot]_vars

----------------------------------------------------------------------------
(* Properties of the debouncer *)

Submitted == {i \in Signals : sig[i].pc # "idle"}

\* Every handler of every submitted signal has run up to its stop callback.
Settled == \A i \in Submitted : sig[i].pc \in {"done", "failed", "await_stop"}

\* Signals whose increment has executed and whose decrement has not.
Counted(s) == {i \in Signals : s[i].pc \in {"timer", "stop_ready"}}

\* All signals so far arrived strictly less than motion_timeout apart.
SingleBurst ==
    /\ Submitted # {}
    /\ \A i \in Submitted : i > 1 => sig[i].gap = "less"

IsPrefix(s, t) == Len(s) <= Len(t) /\ \A k \in 1..Len(s) : s[k] = t[k]

\* C1: for a burst of N >= 1 signals, each less than motion_timeout after
\* the one before, on_motion_start is invoked exactly once, at the first
\* signal, and on_motion_stop exactly once, motion_timeout after the last
\* signal, with no other invocation in between (stated for the runs in
\* which no host callback raises).
C1_Claim ==
    (SingleBurst /\ exc = {}) =>
        /\ \A k \in 1..Len(calls) :
              calls[k].kind = "start" => k = 1 /\ calls[k].after = 0
        /\ \A k \in 1..Len(calls) :
              calls[k].kind = "stop" =>
                  k = 2 /\ calls[k].after = motion_timeout
        /\ Settled => Len(calls) = 2

\* C2: for two signals more than motion_timeout apart the callbacks invoked
\* are start, stop, start, stop in this order, each stop motion_timeout
\* after its signal (stated for the runs in which no host callback raises).
C2_Expected ==
    << [kind |-> "start", after |-> 0],
       [kind |-> "stop",  after |-> motion_timeout],
       [kind |-> "start", after |-> 0],
       [kind |-> "stop",  after |-> motion_timeout] >>

C2_Claim ==
    (NumSubmitted = 2 /\ sig[2].gap = "more" /\ exc = {}) =>
        /\ IsPrefix(calls, C2_Expected)
        /\ Settled => calls = C2_Expected

\* C3: the invocations of on_motion_start and on_motion_stop strictly
\* alternate, beginning with a start (stated for the runs in which no host
\* callback raises).
C3_Claim ==
    exc = {} =>
        \A k \in 1..Len(calls) :
            calls[k].kind = IF k % 2 = 1 THEN "start" ELSE "stop"

\* C4: motion_counter is never negative at a scheduling point of the event
\* loop.
C4_CounterNonNegative == motion_counter >= 0

\* A stop handler has decremented the counter to 0 while the handler of a
\* later signal is suspended in its start callback.
C4_Witness ==
    /\ motion_counter = 0
    /\ \E i \in Signals : sig[i].pc \in {"done", "await_stop"}
    /\ \E j \in Signals : sig[j].pc = "await_start"

\* C8: when on_motion_start raises in the handler of a signal, the counter
\* is still incremented by 1 and the stop-timer of that signal is still
\* scheduled; when on_motion_stop raises, the counter has been decremented.
C8_Claim ==
    [][\A i \in Signals :
          /\ (<<i, "start">> \notin exc /\ <<i, "start">> \in exc') =>
                /\ motion_counter' = motion_counter + 1
                /\ sig'[i].pc = "timer"
          /\ (<<i, "stop">> \notin exc /\ <<i, "stop">> \in exc') =>
                motion_counter' = Cardinality(Counted(sig') \ {i})]_vars

----------------------------------------------------------------------------
(* Properties of the poller *)

\* C5: the worker has no terminal state: it never leaves its loop, a raised
\* exception is caught and leads back to the alertStream request, and so
\* do the end of the stream and an empty response.
C5_NoTerminalState ==
    /\ [](wpc \in {"not_started", "connecting", "streaming", "except"})
    /\ [][wpc = "except" => wpc' \in {"except", "connecting"}]_vars
    /\ [][wpc = "streaming" => wpc' \in {"streaming", "except", "connecting"}]_vars
    /\ [][wpc = "connecting" => wpc' \in {"connecting", "except", "streaming"}]_vars

\* The worker caught an exception raised while it was streaming, after it
\* had forwarded a signal.
C5_Witness == wpc = "except" /\ NumSubmitted >= 1

\* C6: a well-formed record submits exactly one signal when its eventType
\* is 'VMD' and its eventDescription is 'Motion alarm' and none otherwise,
\* and the worker keeps streaming.
C6_ForwardsOnlyMotionAlarms ==
    [][\A r \in WellFormedRecords :
          ReadRecord(r) =>
              /\ NumSubmitted' = NumSubmitted +
                    (IF r.eventType = "VMD" /\ r.eventDescription = "Motion alarm"
                       THEN 1 ELSE 0)
              /\ wpc' = "streaming"]_vars

\* Two records were forwarded on one connection, the second less than
\* motion_timeout after the first, and the worker is still streaming.
C6_Witness ==
    /\ wpc = "streaming"
    /\ NumSubmitted = 2
    /\ sig[2].pc = "submitted"
    /\ sig[2].gap = "less"

\* C7: the worker and run() leave the counter, the timers and the host
\* callbacks alone: a step that moves the worker or run(), or that takes a
\* signal into the system, changes nothing of the debouncer but to queue a
\* handler on the loop, so every change of the counter, every timer and
\* every host callback is a step of the event loop; and the worker runs
\* only once self.loop is set.
C7_WorkerOnlySubmits ==
    /\ [](wpc # "not_started" => loop # None)
    /\ [][(\/ wpc' # wpc
           \/ rpc' # rpc
           \/ \E i \in Signals : sig[i].pc = "idle" /\ sig'[i].pc # "idle") =>
             /\ motion_counter' = motion_counter
             /\ calls' = calls
             /\ exc' = exc
             /\ \A i \in Signals :
                   sig'[i] # sig[i] =>
                       sig[i].pc = "idle" /\ sig'[i].pc = "submitted"]_vars

\* The worker has queued a handler that the loop has not run yet.
C7_Witness ==
    /\ loop = "loop"
    /\ sig[1].pc = "submitted"
    /\ motion_counter = 0
    /\ calls = << >>

----------------------------------------------------------------------------
(* Properties of the unit mapping *)

InRange(o) == o.brightness \in 0..100 /\ o.contrast \in 0..100 /\ o.hue \in 0..100

PoseInRange(r) ==
    r.azimuth \in 0..3600 /\ r.elevation \in 0..900 /\ r.absoluteZoom \in 0..40

\* q is the quotient n / d rounded down.
IsFloor(q, n, d) == d * q <= n /\ n < d * (q + 1)

C9_Example == [brightness |-> 50, contrast |-> 25, hue |-> 100]

\* C9 as stated: for a triple in 0..100 change_video_settings sends
\* elevation = round(brightness*900/100), azimuth = round(contrast*3600/100)
\* and zoom = round(hue*40/100), rounding half up.
C9_Claim ==
    (sent.put /\ InRange(options)) =>
        /\ sent.elevation = RoundHalfUp(options.brightness * 900, 100)
        /\ sent.azimuth = RoundHalfUp(options.contrast * 3600, 100)
        /\ sent.absoluteZoom = RoundHalfUp(options.hue * 40, 100)

\* C9 amended: for a triple in 0..100 change_video_settings sends
\* brightness*900/100, contrast*3600/100 and hue*40/100 rounded down to an
\* integer; {brightness:50, contrast:25, hue:100} gives
\* {elevation:450, azimuth:900, zoom:40}.
C9_ToDeviceTruncates ==
    (sent.put /\ InRange(options)) =>
        /\ IsFloor(sent.elevation, options.brightness * 900, 100)
        /\ IsFloor(sent.azimuth, options.contrast * 3600, 100)
        /\ IsFloor(sent.absoluteZoom, options.hue * 40, 100)
        /\ options = C9_Example =>
              /\ sent.elevation = 450
              /\ sent.azimuth = 900
              /\ sent.absoluteZoom = 40

\* hue 2 was sent as zoom 0, where rounding would give 1.
C9_Witness ==
    /\ sent.put
    /\ InRange(options)
    /\ options.hue = 2
    /\ sent.absoluteZoom = 0

C11_HueRoundTrip ==
    [][(/\ get_video_settings
        /\ ptz_supported
        /\ ptz_exc' = None
        /\ sent.put
        /\ pose.absoluteZoom = sent.absoluteZoom
        /\ options.hue \in 0..100
        /\ options.hue % 5 = 0)
       => telemetry'.hue = options.hue]_vars

C11_Witness ==
    /\ options.hue = 50
    /\ sent.put
    /\ sent.absoluteZoom = 20
    /\ pose.absoluteZoom = 20
    /\ telemetry.dict = "values"
    /\ telemetry.hue = 50

\* The option triple with one component raised by one.
NextOption(o, f) == [o EXCEPT ![f] = @ + 1]

NextPose(r, f) == [r EXCEPT ![f] = @ + 1]

\* C12: each direction of the conversion is monotone non-decreasing and
\* stays inside the documented ranges for every integer input: elevation in
\* 0..900, azimuth in 0..3600 and zoom in 0..40 towards the device, 0..100
\* towards the host.
C12_Claim ==
    /\ sent.put =>
          /\ sent.elevation \in 0..900
          /\ sent.azimuth \in 0..3600
          /\ sent.absoluteZoom \in 0..40
          /\ to_device(NextOption(options, "brightness")).elevation >= sent.elevation
          /\ to_device(NextOption(options, "contrast")).azimuth >= sent.azimuth
          /\ to_device(NextOption(options, "hue")).absoluteZoom >= sent.absoluteZoom
    /\ (telemetry.dict = "values" /\ telemetry = to_telemetry(pose)) =>
          /\ telemetry.brightness \in 0..100
          /\ telemetry.contrast \in 0..100
          /\ telemetry.hue \in 0..100
          /\ to_telemetry(NextPose(pose, "azimuth")).contrast >= telemetry.contrast
          /\ to_telemetry(NextPose(pose, "absoluteZoom")).hue >= telemetry.hue

\* C13: when the probe of __init__ ended in a client error, ptz_supported
\* is false and stays false, and no call of get_video_settings or
\* change_video_settings requests anything from the device, raises, sends
\* a pose or returns values; ptz_supported never changes after __init__.
C13_NoPtzIsNoOp ==
    /\ [](probe = "HTTPError" =>
            /\ ~ptz_supported
            /\ ptz_requests = {}
            /\ ptz_exc = None
            /\ ~sent.put
            /\ telemetry.dict \in {"not_called", "empty"})
    /\ [][/\ ptz_supported' = ptz_supported
          /\ probe = "HTTPError" => pose' = pose]_vars

C13_Witness ==
    /\ probe = "HTTPError"
    /\ ~ptz_supported
    /\ telemetry = EmptyDict
    /\ ptz_call = "change_video_settings"

Failed(result) == result \notin {"not_called", "path"}

Complete(f) == f.exists /\ \E img \in Images : f.data = Body(img)

\* C14: every failure of get_snapshot reaches the caller as RetryableError,
\* and each call issues exactly one picture request.
C14_Claim ==
    /\ Failed(snap_result) => snap_result = "RetryableError"
    /\ snap_result # "not_called" => snap_gets = 1

\* C19: whenever get_snapshot fails, before any response or part-way
\* through the body, screen.jpg is as it was before the call, and a
\* returned path names a complete image.
C19_Claim ==
    /\ Failed(snap_result) => img_file = img_before
    /\ snap_result = "path" => Complete(img_file)

----------------------------------------------------------------------------
(* Properties of the counter and of the timers *)

\* The most recent host callback invoked is on_motion_start.
MotionActive == Len(calls) > 0 /\ calls[Len(calls)].kind = "start"

\* The most recent host callback invoked is on_motion_stop.
MotionStopped == Len(calls) > 0 /\ calls[Len(calls)].kind = "stop"

\* C15: at every scheduling point of the event loop motion_counter > 0 if
\* and only if the most recent host callback invoked is on_motion_start;
\* there is no state in which on_motion_start has been invoked while the
\* counter is still 0 (stated for the runs in which no host callback
\* raises).
C15_Claim == exc = {} => (motion_counter > 0 <=> MotionActive)

\* _trigger_motion_start has run to its end for signal i.
StartHandlerEnded(i) ==
    sig[i].pc \in {"timer", "stop_ready", "await_stop", "done", "failed"}

\* Line 112 has scheduled the stop-timer of signal i.
TimerScheduled(i) ==
    \/ sig[i].pc \in {"timer", "stop_ready", "await_stop", "done"}
    \/ sig[i].pc = "failed" /\ <<i, "stop">> \in exc

\* C16: every signal handled by _trigger_motion_start has scheduled its
\* stop-timer; motion_counter equals the number of stop-timers scheduled or
\* fired whose decrement has not executed; and the clamp of
\* _trigger_motion_stop never changes the counter.
C16_Claim ==
    /\ \A i \in Signals : StartHandlerEnded(i) => TimerScheduled(i)
    /\ motion_counter = Cardinality(Counted(sig))
    /\ \A i \in Signals : sig[i].pc = "stop_ready" => motion_counter - 1 >= 0

\* C17: once on_motion_start has been invoked, with the event loop running
\* fairly the counter returns to 0 and on_motion_stop is invoked; and after
\* an on_motion_stop the next callback is invoked only by the handler of a
\* new signal.
C17_Claim ==
    /\ MotionActive ~> (motion_counter = 0 /\ MotionStopped)
    /\ [][(MotionStopped /\ calls' # calls) =>
            \E i \in Signals :
                sig[i].pc = "submitted" /\ sig'[i].pc # "submitted"]_vars

\* The worker enters or leaves its except clause.
PollerFailure ==
    \/ wpc # "except" /\ wpc' = "except"
    \/ wpc = "except" /\ wpc' # "except"

====
